---------------------------- MODULE Spec2Model ----------------------------
(***************************************************************************)
(* A model of src/app.py: the in-memory message store with ingestion and   *)
(* clear, the timeframe selection, the chunking loop and the two-stage     *)
(* summarization of generate_summary, the four interactive summary         *)
(* handlers and the daily scheduler, all running on one asyncio event      *)
(* loop.                                                                   *)
(*                                                                         *)
(* Time is counted in minutes.  A Python str is modelled as its run-length *)
(* encoding: a sequence of runs [ch, n] (n >= 1 copies of character ch) in *)
(* which adjacent runs carry different characters, so that two strings are *)
(* equal exactly when their encodings are equal and strings of several     *)
(* thousand characters stay small values.                                  *)
(***************************************************************************)
EXTENDS Integers, Sequences, FiniteSets, TLC

VARIABLES
    channel_messages,    \* dict chat_id -> list of messages (app.py:34)
    auto_summary_chats,  \* set of chat ids with auto-summary on (app.py:37)
    now,                 \* the wall clock, in minutes
    gs,                  \* the generate_summary call in progress, if any
    req,                 \* the interactive summary handler task
    sched,               \* the schedule_daily_summary task
    sel                  \* the last operation made on its own, and its inputs

vars == <<channel_messages, auto_summary_chats, now, gs, req, sched, sel>>

-----------------------------------------------------------------------------
(* Bounds of the model.                                                    *)

\* Number of conversations.
NumChats == 2
\* Most messages the store is let to hold, all conversations together.
MaxStored == 2
\* Longest message list handed directly to generate_summary.
MaxMsgs == 3
\* Longest buffer drawn for a window selection made on its own.
MaxSel == 3
\* The clock stops before this many days have passed.
MaxDays == 1
\* Most updates delivered before an interactive request made on its own.
MaxReqBuf == 2
\* Days the clock is followed for when the scheduler runs on its own.
MaxClockDays == 3

\* chat ids (those of Telegram groups are negative)
Chats == {0 - i : i \in 1..NumChats}

-----------------------------------------------------------------------------
(* Program constants.                                                      *)

max_tokens_per_block == 3200
MinutesPerHour == 60
HoursPerDay == 24
\* hours=24 of summary_command and send_auto_summary, "end" of yesterday
DayWindowHours == 24
\* timedelta(hours=48), "start" of the yesterday window
YesterdayStartHours == 48
\* target = now.replace(hour=1, ...)
TargetHour == 1
\* if now.hour >= 1
RollOverHour == 1
\* asyncio.sleep(60): one minute
PostBatchSleep == 1

timedelta(hours) == hours * MinutesPerHour
MinutesPerDay == HoursPerDay * MinutesPerHour
MaxNow == MaxDays * MinutesPerDay

-----------------------------------------------------------------------------
(* Strings.                                                                *)

Max(a, b) == IF a >= b THEN a ELSE b

EmptyStr == <<>>

\* c repeated n times
Rep(c, n) == IF n <= 0 THEN <<>> ELSE <<[ch |-> c, n |-> n]>>

Lit(c) == Rep(c, 1)

\* s + t
Cat(s, t) ==
    IF s = <<>> THEN t
    ELSE IF t = <<>> THEN s
    ELSE IF s[Len(s)].ch = t[1].ch
         THEN SubSeq(s, 1, Len(s) - 1)
              \o <<[ch |-> t[1].ch, n |-> s[Len(s)].n + t[1].n]>>
              \o Tail(t)
         ELSE s \o t

RECURSIVE CatAll(_)
CatAll(ss) == IF ss = <<>> THEN <<>> ELSE Cat(Head(ss), CatAll(Tail(ss)))

\* len(s)
RECURSIVE StrLen(_)
StrLen(s) == IF s = <<>> THEN 0 ELSE Head(s).n + StrLen(Tail(s))

IsSpace(c) == c \in {"SP", "NL"}

RECURSIVE LStrip(_)
LStrip(s) == IF s # <<>> /\ IsSpace(Head(s).ch) THEN LStrip(Tail(s)) ELSE s

RECURSIVE RStrip(_)
RStrip(s) ==
    IF s # <<>> /\ IsSpace(s[Len(s)].ch)
    THEN RStrip(SubSeq(s, 1, Len(s) - 1))
    ELSE s

\* a str.strip() that strips nothing
strip_nothing(s) == s

\* s.strip()
strip(s) == RStrip(LStrip(s))

\* "\n".join(ss)
RECURSIVE JoinNL(_)
JoinNL(ss) ==
    IF ss = <<>> THEN <<>>
    ELSE IF Len(ss) = 1 THEN ss[1]
    ELSE Cat(Cat(ss[1], Lit("NL")), JoinNL(Tail(ss)))

\* s.split("\n"), done holding the pieces already cut and cur the piece
\* being read
RECURSIVE SplitLoop(_, _, _)
SplitLoop(s, done, cur) ==
    IF s = <<>> THEN Append(done, cur)
    ELSE IF Head(s).ch = "NL"
         THEN SplitLoop(Tail(s),
                        Append(done, cur)
                            \o [i \in 1..(Head(s).n - 1) |-> EmptyStr],
                        EmptyStr)
         ELSE SplitLoop(Tail(s), done, Append(cur, Head(s)))

SplitNL(s) == SplitLoop(s, <<>>, EmptyStr)

HasNL(s) == \E i \in DOMAIN s : s[i].ch = "NL"

DigitCh == <<"0", "1", "2", "3", "4", "5", "6", "7", "8", "9">>

\* a number below 100 in two digits (%H, %M)
TwoDigits(k) == Cat(Lit(DigitCh[(k \div 10) + 1]), Lit(DigitCh[(k % 10) + 1]))

\* timestamp.strftime('%H:%M')
strftime_HM(t) ==
    CatAll(<<TwoDigits((t \div MinutesPerHour) % HoursPerDay),
             Lit(":"),
             TwoDigits(t % MinutesPerHour)>>)

SomeUser == Lit("u")
SomeStamp == 11 * MinutesPerHour + 7

-----------------------------------------------------------------------------
(* generate_summary: the readable lines.                                   *)

\* A buffered message: the dict appended by collect_message.
Message(text, timestamp, user) ==
    [text |-> text, timestamp |-> timestamp, user |-> user]

\* f"[{m['timestamp'].strftime('%H:%M')}] {m['user']}: {t}"
FormatLine(m, t) ==
    CatAll(<<Lit("["), strftime_HM(m.timestamp), Lit("]"), Lit("SP"),
             m.user, Lit(":"), Lit("SP"), t>>)

\* a text taken as it is
StrippedTextRaw(m) == m.text

\* t = (m.get("text") or "").strip()
StrippedText(m) == strip(m.text)

\* the loop "for m in messages" that collects the lines
RECURSIVE CollectLines(_)
CollectLines(messages) ==
    IF messages = <<>> THEN <<>>
    ELSE LET m == Head(messages)
             t == StrippedText(m)
         IN  IF t = EmptyStr
             THEN CollectLines(Tail(messages))
             ELSE <<FormatLine(m, t)>> \o CollectLines(Tail(messages))

-----------------------------------------------------------------------------
(* generate_summary: the chunking loop.                                    *)

\* est = max(1, len(line) // 4)
Est(line) == Max(1, StrLen(line) \div 4)

\* the flush test comparing the block as it stands, before the line is added
ShouldFlushBeforeAdding(current, current_tokens, est) ==
    current # <<>> /\ current_tokens > max_tokens_per_block

\* if current and current_tokens + est > max_tokens_per_block
ShouldFlush(current, current_tokens, est) ==
    current # <<>> /\ current_tokens + est > max_tokens_per_block

\* a new block that forgets the cost of the line it starts with
TokensAfterFlushZero(est) == 0

\* current_tokens = est
TokensAfterFlush(est) == est

\* The state of the loop: blocks as the code builds it, groups the value
\* of current at each blocks.append, current and current_tokens.
ChunkStart == [blocks |-> <<>>, groups |-> <<>>, current |-> <<>>,
               current_tokens |-> 0]

\* one iteration of "for line in lines"
ChunkStep(st, line) ==
    LET est == Est(line) IN
    IF ShouldFlush(st.current, st.current_tokens, est)
    THEN [blocks |-> Append(st.blocks, JoinNL(st.current)),
          groups |-> Append(st.groups, st.current),
          current |-> <<line>>,
          current_tokens |-> TokensAfterFlush(est)]
    ELSE [st EXCEPT !.current = Append(st.current, line),
                    !.current_tokens = st.current_tokens + est]

RECURSIVE ChunkLoop(_, _)
ChunkLoop(st, lines) ==
    IF lines = <<>> THEN st
    ELSE ChunkLoop(ChunkStep(st, Head(lines)), Tail(lines))

\* a loop end that leaves the accumulated block behind
FlushLastForgotten(st) == st

\* if current: blocks.append("\n".join(current))
FlushLast(st) ==
    IF st.current # <<>>
    THEN [st EXCEPT !.blocks = Append(st.blocks, JoinNL(st.current)),
                    !.groups = Append(st.groups, st.current)]
    ELSE st

\* lines 76-92: the blocks of a line sequence, with the lines of each
Chunk(lines) == FlushLast(ChunkLoop(ChunkStart, lines))

-----------------------------------------------------------------------------
(* generate_summary: the two stages.                                       *)
(*                                                                         *)
(* gs is the one call of generate_summary that can be in progress: the     *)
(* completion calls are made with the synchronous Groq client, so the      *)
(* coroutine never suspends between its first statement and its return.    *)
(*   pc       "idle", "stage1" or "stage2" (a completion call of that      *)
(*            stage has been issued and has not returned), "done"          *)
(*            (returned result), "raised" (the call's exception left       *)
(*            generate_summary)                                            *)
(*   caller   "none", "direct", "req" or "sched"                           *)
(*   calls    every completion call issued, in order, with its outcome     *)
(***************************************************************************)

\* What generate_summary returns: a fixed text, or the text of the final
\* completion (named after the partials it was made from).
NoResult == [kind |-> "none", text |-> "", of |-> <<>>]
NoError == [stage |-> 0, block |-> 0]

\* return "No messages to summarize."
NoMessagesResult ==
    [kind |-> "fixed", text |-> "No messages to summarize.", of |-> <<>>]
\* return "No text messages found to summarize."
NoTextResult ==
    [kind |-> "fixed", text |-> "No text messages found to summarize.",
     of |-> <<>>]

\* completion.choices[0].message.content of a call that returned: what the
\* service answers is not the program's to decide, so the text is named
\* after the call it answers.
PartialOf(i, block) == [kind |-> "partial", block |-> i, of |-> block]
FinalOf(partials) == [kind |-> "digest", text |-> "", of |-> partials]
\* a stand-in for a partial that was never produced
EmptyPartial == [kind |-> "partial", block |-> 0, of |-> EmptyStr]

GsIdle ==
    [pc |-> "idle", caller |-> "none", messages |-> <<>>, lines |-> <<>>,
     groups |-> <<>>, blocks |-> <<>>, partials |-> <<>>, calls |-> <<>>,
     result |-> NoResult, error |-> NoError]

\* client.chat.completions.create(...) of the partial prompt for block i
Stage1Call(i, block) ==
    [stage |-> 1, block |-> i, input |-> <<block>>, outcome |-> "pending"]

\* client.chat.completions.create(...) of the final prompt
Stage2Call(partials) ==
    [stage |-> 2, block |-> 0, input |-> partials, outcome |-> "pending"]

\* the outcome of the call in flight, which is the last one issued
Settle(calls, outcome) == [calls EXCEPT ![Len(calls)].outcome = outcome]

\* generate_summary(messages) up to its first completion call, or to its
\* return when there is nothing to summarize (lines 61-117)
generate_summary(messages, caller) ==
    IF messages = <<>>
    THEN [GsIdle EXCEPT !.pc = "done", !.caller = caller,
                        !.result = NoMessagesResult]
    ELSE LET lines == CollectLines(messages) IN
         IF lines = <<>>
         THEN [GsIdle EXCEPT !.pc = "done", !.caller = caller,
                             !.messages = messages,
                             !.result = NoTextResult]
         ELSE LET c == Chunk(lines)
                  g == [GsIdle EXCEPT !.caller = caller,
                                      !.messages = messages, !.lines = lines,
                                      !.groups = c.groups,
                                      !.blocks = c.blocks]
              IN  IF c.blocks = <<>>
                  \* "for block in blocks" over no block goes straight to
                  \* the final prompt
                  THEN [g EXCEPT !.pc = "stage2",
                                 !.calls = <<Stage2Call(<<>>)>>]
                  ELSE [g EXCEPT !.pc = "stage1",
                                 !.calls = <<Stage1Call(1, c.blocks[1])>>]

\* a run that returns the partial summary of a single block as it is
AfterPartialSinglePass(g, partial) ==
    LET ps == Append(g.partials, partial)
        cs == Settle(g.calls, "ok")
    IN  IF Len(ps) < Len(g.blocks)
        THEN [g EXCEPT !.partials = ps,
                       !.calls = Append(cs, Stage1Call(Len(ps) + 1,
                                                      g.blocks[Len(ps) + 1]))]
        ELSE IF Len(ps) = 1
             THEN [g EXCEPT !.pc = "done", !.partials = ps, !.calls = cs,
                            !.result = FinalOf(ps)]
             ELSE [g EXCEPT !.pc = "stage2", !.partials = ps,
                            !.calls = Append(cs, Stage2Call(ps))]

\* partials.append(...) and the next statement: the call for the next
\* block, or the call of the final prompt after the last block
AfterPartial(g, partial) ==
    LET ps == Append(g.partials, partial)
        cs == Settle(g.calls, "ok")
    IN  IF Len(ps) < Len(g.blocks)
        THEN [g EXCEPT !.partials = ps,
                       !.calls = Append(cs, Stage1Call(Len(ps) + 1,
                                                      g.blocks[Len(ps) + 1]))]
        ELSE [g EXCEPT !.pc = "stage2", !.partials = ps,
                       !.calls = Append(cs, Stage2Call(ps))]

\* a failed block summarized as nothing, the loop going on
OnStage1FailureSwallowed(g) ==
    [AfterPartial(g, EmptyPartial) EXCEPT
        !.calls[Len(g.calls)].outcome = "failed"]

\* the completion call for a block raises: nothing in generate_summary
\* catches it
OnStage1Failure(g) ==
    [g EXCEPT !.pc = "raised",
              !.calls = Settle(g.calls, "failed"),
              !.error = [stage |-> 1, block |-> Len(g.partials) + 1]]

\* the Stage-1 call in flight returns
GsStage1Ok ==
    /\ gs.pc = "stage1"
    /\ gs' = AfterPartial(gs, PartialOf(Len(gs.partials) + 1,
                                        gs.blocks[Len(gs.partials) + 1]))
    /\ UNCHANGED <<channel_messages, auto_summary_chats, now, req, sched, sel>>

\* the Stage-1 call in flight fails
GsStage1Fail ==
    /\ gs.pc = "stage1"
    /\ gs' = OnStage1Failure(gs)
    /\ UNCHANGED <<channel_messages, auto_summary_chats, now, req, sched, sel>>

\* the Stage-2 call returns: return completion.choices[0].message.content
GsStage2Ok ==
    /\ gs.pc = "stage2"
    /\ gs' = [gs EXCEPT !.pc = "done",
                        !.calls = Settle(gs.calls, "ok"),
                        !.result = FinalOf(gs.partials)]
    /\ UNCHANGED <<channel_messages, auto_summary_chats, now, req, sched, sel>>

\* the Stage-2 call fails
GsStage2Fail ==
    /\ gs.pc = "stage2"
    /\ gs' = [gs EXCEPT !.pc = "raised",
                        !.calls = Settle(gs.calls, "failed"),
                        !.error = [stage |-> 2, block |-> 0]]
    /\ UNCHANGED <<channel_messages, auto_summary_chats, now, req, sched, sel>>

-----------------------------------------------------------------------------
(* The message store and the window selections.                            *)
(*                                                                         *)
(* Every timestamp and the clock are instants on one time basis: the code  *)
(* reads the clock in the timezone of the newest buffered message (lines   *)
(* 48-49, 254-255), which makes the comparisons those of instants.         *)

\* channel_messages = {}
EmptyStore == [c \in {} |-> <<>>]

\* channel_messages.get(chat_id, [])
BufferOf(chat_id) ==
    IF chat_id \in DOMAIN channel_messages
    THEN channel_messages[chat_id]
    ELSE <<>>

\* the store with the list of chat_id set to buf, the key made if missing
StoreWith(store, chat_id, buf) ==
    [c \in DOMAIN store \cup {chat_id} |->
        IF c = chat_id THEN buf ELSE store[c]]

\* the number of messages in the store
RECURSIVE Stored(_)
Stored(store) ==
    IF DOMAIN store = {} THEN 0
    ELSE LET c == CHOOSE x \in DOMAIN store : TRUE
         IN  Len(store[c]) + Stored([d \in DOMAIN store \ {c} |-> store[d]])

\* a cutoff test that leaves out the message exactly at the cutoff
InTimeframeStrict(m, cutoff) == m.timestamp > cutoff

\* m["timestamp"] >= cutoff
InTimeframe(m, cutoff) == m.timestamp >= cutoff

\* lines 43-51
get_messages_by_timeframe(chat_id, hours) ==
    LET messages == BufferOf(chat_id) IN
    IF messages = <<>> THEN <<>>
    ELSE LET cutoff == now - timedelta(hours)
             Keep(m) == InTimeframe(m, cutoff)
         IN  SelectSeq(messages, Keep)

\* a yesterday test that takes in the message exactly 24 hours old
InYesterdayClosed(m, start, end) ==
    start <= m.timestamp /\ m.timestamp <= end

\* start <= m["timestamp"] < end
InYesterday(m, start, end) == start <= m.timestamp /\ m.timestamp < end

\* summary_yesterday, lines 249-260: the messages it goes on with (none when
\* it has replied that there is no message)
yesterday_messages(chat_id) ==
    LET all_msgs == BufferOf(chat_id) IN
    IF all_msgs = <<>> THEN <<>>
    ELSE LET start == now - timedelta(YesterdayStartHours)
             end == now - timedelta(DayWindowHours)
             Keep(m) == InYesterday(m, start, end)
         IN  SelectSeq(all_msgs, Keep)

-----------------------------------------------------------------------------
(* The initial state: the module has just been loaded (lines 34, 37), no   *)
(* handler is running and on_startup has created the scheduler task.       *)

ReqIdle ==
    [pc |-> "idle", cmd |-> "none", chat |-> 0, args |-> <<>>, n |-> 0,
     hours |-> 0, msgs |-> <<>>, replies |-> <<>>]

\* The scheduler task: pc is "created", "sleeping" (in asyncio.sleep(wait_s)
\* until wake), "summarizing" (in generate_summary for Head(todo)),
\* "sending" (in send_message for Head(todo)), "sleep60" or "dead" (an
\* exception has left the coroutine); snapshot is list(auto_summary_chats)
\* of the batch, todo the chats the for loop has not finished with, log
\* what became of each chat the loop has finished with (both kept until
\* the sleep that follows the batch is over); cause says which call's
\* exception ended the task, whose todo then still holds the chat it was
\* at and those it never came to; fired is the instant at which the latest
\* call of send_auto_summary was made (before any instant when there was
\* none).
SchedCreated ==
    [pc |-> "created", wake |-> 0, snapshot |-> <<>>, todo |-> <<>>,
     msgs |-> <<>>, log |-> <<>>, cause |-> "none", fired |-> 0 - 1]

NoSelection == [kind |-> "none", chat |-> 0, hours |-> 0, msgs |-> <<>>]

Init ==
    /\ channel_messages = EmptyStore
    /\ auto_summary_chats = {}
    /\ now = 0
    /\ gs = GsIdle
    /\ req = ReqIdle
    /\ sched = SchedCreated
    /\ sel = NoSelection

-----------------------------------------------------------------------------
(* The event loop.                                                         *)
(*                                                                         *)
(* Handlers and the scheduler are coroutines of one asyncio event loop: a  *)
(* coroutine runs alone until it awaits network I/O or a sleep.  One       *)
(* action below is one such stretch of a coroutine.  generate_summary      *)
(* awaits nothing: Groq(...) (line 94) is the synchronous client and       *)
(* client.chat.completions.create (lines 117, 149) blocks the thread until *)
(* the answer is there, so from the call of generate_summary to its        *)
(* caller's next await no other coroutine runs.                            *)

LoopFree == gs.pc = "idle"

-----------------------------------------------------------------------------
(* collect_message.                                                        *)

Word(chars) == CatAll([i \in DOMAIN chars |-> Lit(chars[i])])

Unknown == Word(<<"U", "n", "k", "n", "o", "w", "n">>)
Channel == Word(<<"C", "h", "a", "n", "n", "e", "l">>)

\* An inbound update: post says which of update.channel_post and
\* update.message is set ("none" for neither); an absent text, caption,
\* username, first name or sender-chat title is the empty string, which
\* the code's "or" treats as it treats None.
Update(post, chat_id, text, caption, username, first_name, title) ==
    [post |-> post, chat |-> chat_id, text |-> text, caption |-> caption,
     from_user |-> (username # EmptyStr \/ first_name # EmptyStr),
     username |-> username, first_name |-> first_name,
     sender_chat |-> (title # EmptyStr), title |-> title]

\* a or b
Or(a, b) == IF a # EmptyStr THEN a ELSE b

\* msg.text and msg.text.startswith("/")
IsCommandText(text) == text # EmptyStr /\ Head(text).ch = "/"

\* lines 189-192
UserOf(u) ==
    IF u.post = "message" /\ u.from_user
    THEN Or(u.username, Or(u.first_name, Unknown))
    ELSE IF u.sender_chat THEN u.title ELSE Channel

\* a collect_message without the test for commands
IgnoredWithoutMessage(u) == u.post = "none"

\* whether collect_message returns before touching the store (lines 177-183)
Ignored(u) == u.post = "none" \/ IsCommandText(u.text)

\* a collect_message that puts the new message first
CollectedAtFront(store, u, date) ==
    IF Ignored(u) THEN store
    ELSE LET buf == IF u.chat \in DOMAIN store THEN store[u.chat] ELSE <<>>
         IN  StoreWith(store, u.chat,
                       <<Message(Or(u.text, Or(u.caption, EmptyStr)),
                                 date, UserOf(u))>> \o buf)

\* the store after collect_message(update) received at instant date
Collected(store, u, date) ==
    IF Ignored(u) THEN store
    ELSE LET buf == IF u.chat \in DOMAIN store THEN store[u.chat] ELSE <<>>
         IN  StoreWith(store, u.chat,
                       Append(buf, Message(Or(u.text, Or(u.caption, EmptyStr)),
                                           date, UserOf(u))))

SlashText == <<[ch |-> "/", n |-> 1], [ch |-> "x", n |-> 1]>>

\* The updates drawn: a text message of a user, a command, and an update
\* that carries neither a message nor a channel post.
UpdatesFor(chat_id) ==
    {Update("message", chat_id, Lit("a"), EmptyStr, SomeUser, EmptyStr,
            EmptyStr),
     Update("message", chat_id, SlashText, EmptyStr, SomeUser, EmptyStr,
            EmptyStr),
     Update("none", chat_id, EmptyStr, EmptyStr, EmptyStr, EmptyStr,
            EmptyStr)}

\* collect_message(update, context) for an update of chat_id, whose
\* msg.date is the instant it arrives at
collect_message(chat_id) ==
    /\ LoopFree
    /\ \E u \in UpdatesFor(chat_id) :
           /\ Ignored(u) \/ Stored(channel_messages) < MaxStored
           /\ channel_messages' = Collected(channel_messages, u, now)
    /\ UNCHANGED <<auto_summary_chats, now, gs, req, sched, sel>>

Ingest == \E chat_id \in Chats : collect_message(chat_id)

-----------------------------------------------------------------------------
(* enable_auto_summary, disable_auto_summary.                              *)

\* auto_summary_chats.add(chat_id), then the reply
enable_auto_summary ==
    /\ LoopFree
    /\ \E chat_id \in Chats :
           auto_summary_chats' = auto_summary_chats \cup {chat_id}
    /\ UNCHANGED <<channel_messages, now, gs, req, sched, sel>>

\* auto_summary_chats.discard(chat_id), then the reply
disable_auto_summary ==
    /\ LoopFree
    /\ \E chat_id \in Chats :
           auto_summary_chats' = auto_summary_chats \ {chat_id}
    /\ UNCHANGED <<channel_messages, now, gs, req, sched, sel>>

-----------------------------------------------------------------------------------------------------------------------------------------------------
(* The interactive summary handlers: summary_command, summary_days,        *)
(* summary_yesterday and summary_custom.                                   *)
(*                                                                         *)
(* req.pc: "idle"; "ack" (awaiting the reply_text of the acknowledgment);  *)
(* "summarizing" (in generate_summary); "final" (awaiting the last         *)
(* reply_text of the handler).  replies lists the reply_text calls made.   *)

summary_command == "summary"
summary_days == "summary_days"
summary_yesterday == "summary_yesterday"
summary_custom == "summary_custom"

Commands == {summary_command, summary_days, summary_yesterday, summary_custom}

\* the characters of a string, one by one
RECURSIVE Chars(_)
Chars(s) ==
    IF s = <<>> THEN <<>>
    ELSE [i \in 1..Head(s).n |-> Head(s).ch] \o Chars(Tail(s))

IsDigit(c) == \E d \in DOMAIN DigitCh : DigitCh[d] = c

DigitValue(c) == (CHOOSE d \in DOMAIN DigitCh : DigitCh[d] = c) - 1

\* the number written by a sequence of decimal digits
RECURSIVE DecimalValue(_)
DecimalValue(cs) ==
    IF cs = <<>> THEN 0
    ELSE 10 * DecimalValue(SubSeq(cs, 1, Len(cs) - 1))
         + DigitValue(cs[Len(cs)])

\* int(s) of a str: whitespace around is dropped, a sign may come first and
\* decimal digits must follow and nothing else; ok is FALSE where int raises
\* ValueError
int(s) ==
    LET cs == Chars(strip(s))
        signed == cs # <<>> /\ cs[1] \in {"+", "-"}
        body == IF signed THEN Tail(cs) ELSE cs
    IN  IF body # <<>> /\ \A i \in DOMAIN body : IsDigit(body[i])
        THEN [ok |-> TRUE,
              value |-> IF signed /\ cs[1] = "-"
                        THEN 0 - DecimalValue(body)
                        ELSE DecimalValue(body)]
        ELSE [ok |-> FALSE, value |-> 0]

\* if days < 1, if hours < 1
MinWindow == 1
\* days > 30
MaxSummaryDays == 30
\* hours > 168
MaxCustomHours == 168
\* ... if context.args else 1
DefaultDays == 1
\* ... if context.args else 24
DefaultCustomHours == 24

\* a try block without the test of the range
ParseWindowUnchecked(args, default, highest) ==
    IF args = <<>> THEN [ok |-> TRUE, value |-> default]
    ELSE int(args[1])

\* The try block of summary_days and summary_custom (lines 222-228,
\* 275-281): the number the handler goes on with, ok being FALSE when the
\* except branch replies with the usage text and returns.
ParseWindow(args, default, highest) ==
    IF args = <<>> THEN [ok |-> TRUE, value |-> default]
    ELSE LET p == int(args[1])
         IN  IF p.ok /\ ~(p.value < MinWindow \/ p.value > highest)
             THEN p
             ELSE [ok |-> FALSE, value |-> 0]

\* a reply_text call: n is the number of days or hours written in the
\* text, count the len(msgs) written in it, summary the text returned by
\* generate_summary
Reply(kind, n, count, summary) ==
    [kind |-> kind, n |-> n, count |-> count, summary |-> summary]

\* the handler of a window given in words: the acknowledgment comes first
EnterFixed(r) ==
    [r EXCEPT !.pc = "ack", !.n = 0,
              !.hours = IF r.cmd = summary_command THEN DayWindowHours ELSE 0,
              !.replies = <<Reply("ack", 0, 0, NoResult)>>]

\* summary_days and summary_custom up to their first await
EnterParsed(r) ==
    LET days == r.cmd = summary_days
        p == IF days THEN ParseWindow(r.args, DefaultDays, MaxSummaryDays)
             ELSE ParseWindow(r.args, DefaultCustomHours, MaxCustomHours)
    IN  IF ~p.ok
        THEN [r EXCEPT !.pc = "final",
                       !.replies = <<Reply("usage", 0, 0, NoResult)>>]
        ELSE [r EXCEPT !.pc = "ack", !.n = p.value,
                       !.hours = IF days THEN p.value * HoursPerDay
                                 ELSE p.value,
                       !.replies = <<Reply("ack", p.value, 0, NoResult)>>]

\* a handler from its call to its first await
Entered(cmd, chat_id, args) ==
    LET r == [ReqIdle EXCEPT !.cmd = cmd, !.chat = chat_id, !.args = args]
    IN  IF cmd \in {summary_days, summary_custom}
        THEN EnterParsed(r)
        ELSE EnterFixed(r)

\* a window selection that makes the list of a chat it does not find
AfterSetdefault(store, chat_id) ==
    IF chat_id \in DOMAIN store THEN store
    ELSE StoreWith(store, chat_id, <<>>)

\* channel_messages.get(chat_id, []) leaves the dict as it is
AfterGet(store, chat_id) == store

\* context.args as drawn: no argument, or one argument that is a word, a
\* fraction, a negative number, or a number at or around the ends of the
\* two ranges
ArgTexts ==
    {Word(<<"x">>), Word(<<"1", ".", "5">>), Word(<<"-", "1">>),
     Word(<<"0">>), Word(<<"1">>), Word(<<"2">>), Word(<<"3", "0">>),
     Word(<<"3", "1">>), Word(<<"1", "6", "8">>), Word(<<"1", "6", "9">>)}

\* the arguments drawn while the whole program runs: a word and a number
SomeArgTexts == {Word(<<"x">>), Word(<<"1">>)}

\* the handlers that do not read context.args are called without any
ArgsFor(cmd, texts) ==
    IF cmd \in {summary_days, summary_custom}
    THEN {<<>>} \cup {<<t>> : t \in texts}
    ELSE {<<>>}

\* a handler is entered and runs to its first await: the acknowledgment's
\* delivery, or the delivery of the usage text
ReqEnter(texts) ==
    /\ LoopFree
    /\ req.pc = "idle"
    /\ \E chat_id \in Chats, cmd \in Commands :
           \E args \in ArgsFor(cmd, texts) :
               req' = Entered(cmd, chat_id, args)
    /\ UNCHANGED <<channel_messages, auto_summary_chats, now, gs, sched, sel>>

ReqStart == ReqEnter(SomeArgTexts)

\* the messages the handler selects (lines 207, 233, 249-260, 285)
SelectedBy(r) ==
    IF r.cmd = summary_yesterday
    THEN yesterday_messages(r.chat)
    ELSE get_messages_by_timeframe(r.chat, r.hours)

\* the reply of "if not msgs" (of "if not all_msgs" in summary_yesterday)
NoMessagesReply(r) ==
    IF r.cmd = summary_yesterday /\ BufferOf(r.chat) # <<>>
    THEN Reply("no_messages_in_window", r.n, 0, NoResult)
    ELSE Reply("no_messages", r.n, 0, NoResult)

\* the acknowledgment is out: the selection, then the reply that there is
\* no message or the call of generate_summary
ReqSelect ==
    /\ LoopFree
    /\ req.pc = "ack"
    /\ LET msgs == SelectedBy(req) IN
       IF msgs = <<>>
       THEN /\ req' = [req EXCEPT !.pc = "final",
                                  !.replies = Append(@, NoMessagesReply(req))]
            /\ gs' = gs
       ELSE /\ req' = [req EXCEPT !.pc = "summarizing", !.msgs = msgs]
            /\ gs' = generate_summary(msgs, "req")
    /\ channel_messages' = AfterGet(channel_messages, req.chat)
    /\ UNCHANGED <<auto_summary_chats, now, sched, sel>>

\* generate_summary has returned: the reply with the count and the summary
\* is awaited
ReqReplySummary ==
    /\ gs.caller = "req"
    /\ gs.pc = "done"
    /\ req' = [req EXCEPT !.pc = "final",
                          !.replies = Append(@, Reply("summary", req.n,
                                                      Len(req.msgs),
                                                      gs.result))]
    /\ gs' = GsIdle
    /\ UNCHANGED <<channel_messages, auto_summary_chats, now, sched, sel>>

\* generate_summary has raised: the exception leaves the handler, which
\* catches nothing, and the dispatcher logs it
ReqSummaryRaised ==
    /\ gs.caller = "req"
    /\ gs.pc = "raised"
    /\ req' = ReqIdle
    /\ gs' = GsIdle
    /\ UNCHANGED <<channel_messages, auto_summary_chats, now, sched, sel>>

\* the last reply is out and the handler returns
ReqDone ==
    /\ LoopFree
    /\ req.pc = "final"
    /\ req' = ReqIdle
    /\ UNCHANGED <<channel_messages, auto_summary_chats, now, gs, sched, sel>>

\* a clear_messages that counts after it has emptied the list
ClearedThenCounted(store, chat_id) ==
    [count |-> 0, store |-> StoreWith(store, chat_id, <<>>)]

\* clear_messages: count, the list made empty, then the reply with count
\* (no await in between)
Cleared(store, chat_id) ==
    [count |-> IF chat_id \in DOMAIN store THEN Len(store[chat_id]) ELSE 0,
     store |-> StoreWith(store, chat_id, <<>>)]

clear_messages ==
    /\ LoopFree
    /\ \E chat_id \in Chats :
           channel_messages' = Cleared(channel_messages, chat_id).store
    /\ UNCHANGED <<auto_summary_chats, now, gs, req, sched, sel>>

-----
(* schedule_daily_summary and send_auto_summary.                           *)

\* a target that is never moved to the next day
NextTargetSameDay(t) ==
    t - (t % MinutesPerDay) + TargetHour * MinutesPerHour

\* lines 347-350: the instant of the next 01:00
NextTarget(t) ==
    LET hour == (t % MinutesPerDay) \div MinutesPerHour
        target == t - (t % MinutesPerDay) + TargetHour * MinutesPerHour
    IN  IF hour >= RollOverHour THEN target + MinutesPerDay ELSE target

\* list(s): the members of a set in some order
Orders(S) ==
    {f \in [1..Cardinality(S) -> S] :
        \A i, j \in DOMAIN f : i # j => f[i] # f[j]}

LogEntry(chat_id, outcome) == [chat |-> chat_id, outcome |-> outcome]

\* the chats at the head of todo that the loop passes over at once
\* because their 24-hour window is empty (lines 327-330)
RECURSIVE EmptyPrefix(_)
EmptyPrefix(todo) ==
    IF todo = <<>> THEN <<>>
    ELSE IF get_messages_by_timeframe(Head(todo), DayWindowHours) = <<>>
         THEN <<Head(todo)>> \o EmptyPrefix(Tail(todo))
         ELSE <<>>

\* The for loop of send_auto_summary taken up with todo left and log
\* written so far: it runs to the call of generate_summary for the next
\* chat with messages, or to the end of the list, where send_auto_summary
\* returns and line 357 sleeps.  fired is the instant send_auto_summary was
\* called at.
BatchGoOn(snapshot, todo, log, fired) ==
    LET skipped == EmptyPrefix(todo)
        rest == SubSeq(todo, Len(skipped) + 1, Len(todo))
        log2 == log \o [i \in DOMAIN skipped |-> LogEntry(skipped[i], "empty")]
    IN  IF rest = <<>>
        THEN /\ sched' = [sched EXCEPT !.pc = "sleep60",
                                       !.wake = now + PostBatchSleep,
                                       !.snapshot = snapshot,
                                       !.todo = <<>>, !.msgs = <<>>,
                                       !.log = log2, !.fired = fired]
             /\ gs' = gs
        ELSE LET msgs == get_messages_by_timeframe(Head(rest), DayWindowHours)
             IN  /\ sched' = [sched EXCEPT !.pc = "summarizing",
                                           !.snapshot = snapshot,
                                           !.todo = rest, !.msgs = msgs,
                                           !.log = log2, !.fired = fired]
                 /\ gs' = generate_summary(msgs, "sched")

\* the task starts: the first target is computed and slept for
SchedStart ==
    /\ LoopFree
    /\ sched.pc = "created"
    /\ sched' = [sched EXCEPT !.pc = "sleeping", !.wake = NextTarget(now)]
    /\ UNCHANGED <<channel_messages, auto_summary_chats, now, gs, req, sel>>

\* time passes until the sleep of the scheduler is due, the clock being
\* followed up to limit
SleepUntilWake(limit) ==
    /\ sched.pc \in {"sleeping", "sleep60"}
    /\ now < sched.wake
    /\ sched.wake < limit
    /\ now' = sched.wake
    /\ UNCHANGED <<channel_messages, auto_summary_chats, gs, req, sched, sel>>

ClockAdvance == SleepUntilWake(MaxNow)

\* asyncio.sleep(wait_s) returns: send_auto_summary (lines 322-332)
SchedFire ==
    /\ LoopFree
    /\ sched.pc = "sleeping"
    /\ now >= sched.wake
    /\ IF auto_summary_chats = {}
       THEN /\ sched' = [sched EXCEPT !.pc = "sleep60",
                                      !.wake = now + PostBatchSleep,
                                      !.snapshot = <<>>, !.todo = <<>>,
                                      !.msgs = <<>>, !.log = <<>>,
                                      !.fired = now]
            /\ gs' = gs
       ELSE \E order \in Orders(auto_summary_chats) :
                BatchGoOn(order, order, <<>>, now)
    /\ UNCHANGED <<channel_messages, auto_summary_chats, now, req, sel>>

\* generate_summary has returned: send_message is awaited (line 335)
SchedSend ==
    /\ gs.caller = "sched"
    /\ gs.pc = "done"
    /\ sched' = [sched EXCEPT !.pc = "sending"]
    /\ gs' = GsIdle
    /\ UNCHANGED <<channel_messages, auto_summary_chats, now, req, sel>>

\* generate_summary has raised: line 332 is outside the try, so the
\* exception leaves send_auto_summary and schedule_daily_summary and the
\* task is over
SchedSummaryRaised ==
    /\ gs.caller = "sched"
    /\ gs.pc = "raised"
    /\ sched' = [SchedCreated EXCEPT !.pc = "dead", !.cause = "completion",
                                     !.todo = sched.todo]
    /\ gs' = GsIdle
    /\ UNCHANGED <<channel_messages, auto_summary_chats, now, req, sel>>

\* send_message has delivered the digest (line 340)
SchedSendOk ==
    /\ LoopFree
    /\ sched.pc = "sending"
    /\ BatchGoOn(sched.snapshot, Tail(sched.todo),
                 Append(sched.log, LogEntry(Head(sched.todo), "sent")),
                 sched.fired)
    /\ UNCHANGED <<channel_messages, auto_summary_chats, now, req, sel>>

\* a send_message outside any try
SendFailureEscapes == FALSE

\* try: await ptb.bot.send_message(...) except Exception as e: print(...)
SendFailureCaught == TRUE

\* send_message has raised (lines 341-342)
SchedSendFail ==
    /\ LoopFree
    /\ sched.pc = "sending"
    /\ IF SendFailureCaught
       THEN BatchGoOn(sched.snapshot, Tail(sched.todo),
                      Append(sched.log,
                             LogEntry(Head(sched.todo), "send_failed")),
                      sched.fired)
       ELSE /\ sched' = [SchedCreated EXCEPT
                            !.pc = "dead", !.cause = "delivery",
                            !.todo = sched.todo]
            /\ gs' = gs
    /\ UNCHANGED <<channel_messages, auto_summary_chats, now, req, sel>>

\* asyncio.sleep(60) returns: the next target is computed and slept for
SchedSleepDone ==
    /\ LoopFree
    /\ sched.pc = "sleep60"
    /\ now >= sched.wake
    /\ sched' = [sched EXCEPT !.pc = "sleeping", !.wake = NextTarget(now),
                               !.snapshot = <<>>, !.log = <<>>]
    /\ UNCHANGED <<channel_messages, auto_summary_chats, now, gs, req, sel>>

-----------------------------------------------------------------------------
(* The program.                                                            *)

Next ==
    \/ Ingest
    \/ enable_auto_summary
    \/ disable_auto_summary
    \/ clear_messages
    \/ ReqStart
    \/ ReqSelect
    \/ ReqReplySummary
    \/ ReqSummaryRaised
    \/ ReqDone
    \/ SchedStart
    \/ ClockAdvance
    \/ SchedFire
    \/ SchedSend
    \/ SchedSummaryRaised
    \/ SchedSendOk
    \/ SchedSendFail
    \/ SchedSleepDone
    \/ GsStage1Ok
    \/ GsStage1Fail
    \/ GsStage2Ok
    \/ GsStage2Fail

Spec == Init /\ [][Next]_vars

\* The program while no interactive summary is asked for: ingestion, the
\* subscriptions and the scheduler.
NextBatch ==
    \/ Ingest
    \/ enable_auto_summary
    \/ disable_auto_summary
    \/ SchedStart
    \/ ClockAdvance
    \/ SchedFire
    \/ SchedSend
    \/ SchedSummaryRaised
    \/ SchedSendOk
    \/ SchedSendFail
    \/ SchedSleepDone
    \/ GsStage1Ok
    \/ GsStage1Fail
    \/ GsStage2Ok
    \/ GsStage2Fail

SpecBatch == Init /\ [][NextBatch]_vars

-----------------------------------------------------------------------------
(* generate_summary called on its own, on message lists drawn from texts   *)
(* that make every case of the chunking loop happen: no text, blank text,  *)
(* short text, text with spaces around it, text of two lines, and texts    *)
(* whose line costs half the ceiling, one more than half, the ceiling and  *)
(* one more than the ceiling.                                              *)

\* the length of a formatted line without its text
LineOverhead == StrLen(FormatLine(Message(EmptyStr, SomeStamp, SomeUser),
                                  EmptyStr))

\* a text whose formatted line has cost c
TextOfCost(c) == Rep("a", 4 * c - LineOverhead)

TwoLineText == <<[ch |-> "a", n |-> 1], [ch |-> "NL", n |-> 2],
                 [ch |-> "b", n |-> 1]>>

PaddedText == <<[ch |-> "SP", n |-> 1], [ch |-> "a", n |-> 2],
                [ch |-> "NL", n |-> 1]>>

BlankText == <<[ch |-> "SP", n |-> 2], [ch |-> "NL", n |-> 1]>>

DirectTexts ==
    {EmptyStr, BlankText, Lit("a"), PaddedText, TwoLineText,
     TextOfCost(max_tokens_per_block \div 2),
     TextOfCost(max_tokens_per_block \div 2 + 1),
     TextOfCost(max_tokens_per_block),
     TextOfCost(max_tokens_per_block + 1)}

DirectMessages == {Message(t, SomeStamp, SomeUser) : t \in DirectTexts}

SeqsUpTo(S, n) == UNION {[1..k -> S] : k \in 0..n}

\* summary = await generate_summary(messages), from a caller of its own
DirectCall ==
    /\ gs.pc = "idle"
    /\ \E messages \in SeqsUpTo(DirectMessages, MaxMsgs) :
           gs' = generate_summary(messages, "direct")
    /\ UNCHANGED <<channel_messages, auto_summary_chats, now, req, sched, sel>>

NextSummary == DirectCall \/ GsStage1Ok \/ GsStage1Fail \/ GsStage2Ok
               \/ GsStage2Fail

SpecSummary == Init /\ [][NextSummary]_vars

-----------------------------------------------------------------------------
(* Properties of generate_summary.                                         *)

Stage1Failed(g) ==
    \E i \in DOMAIN g.calls :
        g.calls[i].stage = 1 /\ g.calls[i].outcome = "failed"

Stage2Issued(g) == \E i \in DOMAIN g.calls : g.calls[i].stage = 2

\* C1: once the completion call of any block has failed, no Stage-2 call
\* has been or is ever issued in that run, the run has ended by raising and
\* has returned no text, and the partials kept are only the answers of the
\* blocks summarized before the failure (nothing stands in for the failed
\* one).
C1_StageBarrier ==
    Stage1Failed(gs) =>
        /\ ~Stage2Issued(gs)
        /\ gs.pc = "raised"
        /\ gs.result = NoResult
        /\ gs.error.stage = 1
        /\ Len(gs.partials) = gs.error.block - 1
        /\ \A i \in DOMAIN gs.partials :
               gs.partials[i] = PartialOf(i, gs.blocks[i])
        /\ gs.calls[Len(gs.calls)].outcome = "failed"

\* A run over three blocks whose third block's call failed after two
\* succeeded.
C1_Witness ==
    /\ Stage1Failed(gs)
    /\ Len(gs.blocks) = 3
    /\ Len(gs.partials) = 2

RECURSIVE Flatten(_)
Flatten(ss) == IF ss = <<>> THEN <<>> ELSE Head(ss) \o Flatten(Tail(ss))

\* every block text split on newlines, the pieces put end to end
SplitBlocks(blocks) == Flatten([i \in DOMAIN blocks |-> SplitNL(blocks[i])])

Chunked(g) == g.pc # "idle" /\ g.lines # <<>>

\* C2 as stated: for every line sequence, the block texts split on newlines
\* give back the line sequence, and no block is empty.
C2_SplitRoundTrip ==
    Chunked(gs) =>
        /\ SplitBlocks(gs.blocks) = gs.lines
        /\ \A i \in DOMAIN gs.blocks : gs.blocks[i] # EmptyStr

\* C2 amended: the blocks are the newline-joins of non-empty runs of
\* consecutive lines which, put end to end in block order, are exactly the
\* line sequence (no line lost, duplicated or reordered, the last block
\* flushed, no block empty); and whenever no line holds a newline
\* character, splitting the block texts on newlines gives back the line
\* sequence.
C2_Partition ==
    Chunked(gs) =>
        /\ Flatten(gs.groups) = gs.lines
        /\ Len(gs.blocks) = Len(gs.groups)
        /\ \A i \in DOMAIN gs.blocks :
               /\ gs.groups[i] # <<>>
               /\ gs.blocks[i] = JoinNL(gs.groups[i])
               /\ gs.blocks[i] # EmptyStr
        /\ JoinNL(gs.blocks) = JoinNL(gs.lines)
        /\ (\A n \in DOMAIN gs.lines : ~HasNL(gs.lines[n]))
               => SplitBlocks(gs.blocks) = gs.lines

\* Three newline-free lines in two blocks, the last one of one line.
C2_Witness ==
    /\ Chunked(gs)
    /\ Len(gs.lines) = 3
    /\ \A n \in DOMAIN gs.lines : ~HasNL(gs.lines[n])
    /\ Len(gs.blocks) = 2
    /\ Len(gs.groups[2]) = 1

RECURSIVE SumEst(_)
SumEst(ls) == IF ls = <<>> THEN 0 ELSE Est(Head(ls)) + SumEst(Tail(ls))

Oversized(line) == Est(line) > max_tokens_per_block

\* C3: every block of two or more lines costs at most the ceiling.
C3_Ceiling ==
    Chunked(gs) =>
        \A i \in DOMAIN gs.groups :
            Len(gs.groups[i]) >= 2
                => SumEst(gs.groups[i]) <= max_tokens_per_block

\* A block of two lines that costs exactly the ceiling, followed by a
\* block of one line that costs more.
C3_Witness ==
    /\ Chunked(gs)
    /\ Len(gs.groups) = 2
    /\ Len(gs.groups[1]) = 2
    /\ SumEst(gs.groups[1]) = max_tokens_per_block
    /\ Len(gs.groups[2]) = 1
    /\ SumEst(gs.groups[2]) > max_tokens_per_block

OversizedLines(g) == {n \in DOMAIN g.lines : Oversized(g.lines[n])}

\* the blocks made of one oversized line and nothing else
OversizedBlocks(g) ==
    {i \in DOMAIN g.groups :
        /\ Len(g.groups[i]) = 1
        /\ Oversized(g.groups[i][1])
        /\ g.blocks[i] = g.groups[i][1]}

\* C4: a line that costs more than the ceiling shares its block with no
\* other line, whatever its place, and the blocks holding exactly one
\* whole oversized line are as many as the oversized lines.
C4_OversizedAlone ==
    Chunked(gs) =>
        /\ \A i \in DOMAIN gs.groups :
               (\E k \in DOMAIN gs.groups[i] : Oversized(gs.groups[i][k]))
                   => Len(gs.groups[i]) = 1
        /\ Cardinality(OversizedBlocks(gs)) = Cardinality(OversizedLines(gs))
        /\ \A n \in OversizedLines(gs) :
               \E i \in OversizedBlocks(gs) : gs.blocks[i] = gs.lines[n]

\* An oversized line between a short line and another oversized line.
C4_Witness ==
    /\ Chunked(gs)
    /\ Len(gs.lines) = 3
    /\ ~Oversized(gs.lines[1])
    /\ Oversized(gs.lines[2])
    /\ Oversized(gs.lines[3])
    /\ Len(gs.blocks) = 3

IsBlankText(t) == \A i \in DOMAIN t : IsSpace(t[i].ch)

NothingToSummarize(messages) ==
    \A i \in DOMAIN messages : IsBlankText(messages[i].text)

\* C5: generate_summary called with no message, or with messages whose
\* texts are all empty or whitespace, has returned at once one of the two
\* fixed texts and has issued no completion call.
C5_EmptyInput ==
    (gs.pc # "idle" /\ NothingToSummarize(gs.messages)) =>
        /\ gs.pc = "done"
        /\ gs.calls = <<>>
        /\ gs.result = IF gs.messages = <<>> THEN NoMessagesResult
                       ELSE NoTextResult

\* A call with two messages, one without text and one of whitespace only.
C5_Witness ==
    /\ gs.pc = "done"
    /\ Len(gs.messages) = 2
    /\ gs.messages[1].text = EmptyStr
    /\ gs.messages[2].text = BlankText
    /\ gs.result = NoTextResult

NoCallFailed(g) == \A i \in DOMAIN g.calls : g.calls[i].outcome # "failed"

\* C16: in a run over k >= 1 blocks in which no completion call has failed,
\* the calls issued are, in order, the Stage-1 call of block 1, of block 2
\* and so on, each issued after the one before has returned, then at most
\* one Stage-2 call, issued after the k Stage-1 calls have returned and
\* given the k partial summaries in block order; the run returns only
\* after that call, and what it returns is that call's answer, for k = 1
\* as well.
C16_TwoStages ==
    (gs.pc # "idle" /\ gs.blocks # <<>> /\ NoCallFailed(gs)) =>
        LET k == Len(gs.blocks)
            n == Len(gs.calls)
        IN  /\ n >= 1 /\ n <= k + 1
            /\ \A i \in 1..n :
                   /\ i <= k => /\ gs.calls[i].stage = 1
                                /\ gs.calls[i].block = i
                                /\ gs.calls[i].input = <<gs.blocks[i]>>
                   /\ i < n => gs.calls[i].outcome = "ok"
            /\ n = k + 1 =>
                   /\ gs.calls[n].stage = 2
                   /\ gs.calls[n].input
                          = [i \in 1..k |-> PartialOf(i, gs.blocks[i])]
            /\ gs.pc = "stage1" <=> (n <= k /\ gs.calls[n].outcome = "pending")
            /\ gs.pc = "stage2"
                   <=> (n = k + 1 /\ gs.calls[n].outcome = "pending")
            /\ gs.pc = "done"
                   <=> (n = k + 1 /\ gs.calls[n].outcome = "ok")
            /\ gs.pc = "done" =>
                   /\ gs.result.kind = "digest"
                   /\ gs.result = FinalOf(gs.calls[n].input)
            /\ gs.pc # "done" => gs.result = NoResult

\* A run over a single block has returned the answer of its Stage-2 call.
C16_Witness ==
    /\ gs.pc = "done"
    /\ Len(gs.blocks) = 1
    /\ Len(gs.calls) = 2
    /\ gs.result.kind = "digest"

-----------------------------------------------------------------------------
(* The window selections made on their own, on a store and a clock drawn   *)
(* around the two cutoffs: messages 0 and 10 hours old, one minute short   *)
(* of 24 hours, exactly 24 hours, one minute more, 30 hours, one minute    *)
(* short of 48 hours, exactly 48 hours and one minute more, in any order.  *)

WindowNow == 3 * MinutesPerDay

WindowAges ==
    {0, timedelta(10),
     timedelta(DayWindowHours) - 1, timedelta(DayWindowHours),
     timedelta(DayWindowHours) + 1, timedelta(30),
     timedelta(YesterdayStartHours) - 1, timedelta(YesterdayStartHours),
     timedelta(YesterdayStartHours) + 1}

WindowMessages ==
    {Message(Lit("a"), WindowNow - age, SomeUser) : age \in WindowAges}

WindowChat == CHOOSE c \in Chats : \A d \in Chats : d <= c

\* no list for any chat, or a list (possibly emptied by /clear) for one
InitWindow ==
    /\ channel_messages \in
           {EmptyStore} \cup
           {StoreWith(EmptyStore, WindowChat, buf) :
               buf \in SeqsUpTo(WindowMessages, MaxSel)}
    /\ auto_summary_chats = {}
    /\ now = WindowNow
    /\ gs = GsIdle
    /\ req = ReqIdle
    /\ sched = SchedCreated
    /\ sel = NoSelection

WindowHours == {10, DayWindowHours, YesterdayStartHours}

\* msgs = get_messages_by_timeframe(chat_id, hours=hours)
SelectTimeframe ==
    /\ \E chat_id \in Chats, hours \in WindowHours :
           sel' = [kind |-> "timeframe", chat |-> chat_id, hours |-> hours,
                   msgs |-> get_messages_by_timeframe(chat_id, hours)]
    /\ UNCHANGED <<channel_messages, auto_summary_chats, now, gs, req, sched>>

\* msgs = [m for m in all_msgs if start <= m["timestamp"] < end]
SelectYesterday ==
    /\ \E chat_id \in Chats :
           sel' = [kind |-> "yesterday", chat |-> chat_id, hours |-> 0,
                   msgs |-> yesterday_messages(chat_id)]
    /\ UNCHANGED <<channel_messages, auto_summary_chats, now, gs, req, sched>>

NextWindow == SelectTimeframe \/ SelectYesterday

SpecWindow == InitWindow /\ [][NextWindow]_vars

\* the i-th smallest member of a set of positions
KthOf(S, k) == CHOOSE i \in S : Cardinality({j \in S : j <= i}) = k

\* res is buf cut down to the positions S, in the order of buf
IsSelectionOf(res, buf, S) ==
    /\ Len(res) = Cardinality(S)
    /\ \A k \in 1..Len(res) : res[k] = buf[KthOf(S, k)]

InSeq(x, xs) == \E i \in DOMAIN xs : xs[i] = x

\* C6: get_messages_by_timeframe returns the buffered messages of the chat
\* whose timestamp is at or after now - hours, each once and in buffer
\* order, and the empty sequence for a chat with no list or an empty list.
C6_Timeframe ==
    sel.kind = "timeframe" =>
        LET buf == BufferOf(sel.chat)
            S == {i \in DOMAIN buf :
                     buf[i].timestamp >= now - sel.hours * MinutesPerHour}
        IN  /\ IsSelectionOf(sel.msgs, buf, S)
            /\ buf = <<>> => sel.msgs = <<>>

\* A 24-hour selection over a message older than the cutoff, one exactly
\* at the cutoff and one newer, which keeps the last two.
C6_Witness ==
    /\ sel.kind = "timeframe"
    /\ sel.hours = DayWindowHours
    /\ Len(BufferOf(sel.chat)) = 3
    /\ BufferOf(sel.chat)[1].timestamp = now - timedelta(DayWindowHours) - 1
    /\ BufferOf(sel.chat)[2].timestamp = now - timedelta(DayWindowHours)
    /\ BufferOf(sel.chat)[3].timestamp = now
    /\ Len(sel.msgs) = 2
    /\ sel.msgs[1].timestamp = now - timedelta(DayWindowHours)

\* C7: the yesterday selection is the buffered messages with
\* now - 48h <= timestamp < now - 24h in buffer order; none of them is in
\* the 24-hour selection made at the same instant; a message exactly 24
\* hours old is in the 24-hour selection only and one exactly 48 hours old
\* is in yesterday.
C7_Yesterday ==
    sel.kind = "yesterday" =>
        LET buf == BufferOf(sel.chat)
            day == get_messages_by_timeframe(sel.chat, DayWindowHours)
            lo == now - YesterdayStartHours * MinutesPerHour
            hi == now - DayWindowHours * MinutesPerHour
            S == {i \in DOMAIN buf :
                     lo <= buf[i].timestamp /\ buf[i].timestamp < hi}
        IN  /\ IsSelectionOf(sel.msgs, buf, S)
            /\ \A k \in DOMAIN sel.msgs : ~InSeq(sel.msgs[k], day)
            /\ \A i \in DOMAIN buf :
                   /\ buf[i].timestamp = hi
                          => InSeq(buf[i], day) /\ ~InSeq(buf[i], sel.msgs)
                   /\ buf[i].timestamp = lo => InSeq(buf[i], sel.msgs)
                   /\ InSeq(buf[i], day) \/ InSeq(buf[i], sel.msgs)
                          \/ buf[i].timestamp < lo

\* A yesterday selection over messages exactly 24 hours, 30 hours and
\* exactly 48 hours old, which keeps the last two.
C7_Witness ==
    /\ sel.kind = "yesterday"
    /\ Len(BufferOf(sel.chat)) = 3
    /\ BufferOf(sel.chat)[1].timestamp = now - timedelta(DayWindowHours)
    /\ BufferOf(sel.chat)[2].timestamp = now - timedelta(30)
    /\ BufferOf(sel.chat)[3].timestamp = now - timedelta(YesterdayStartHours)
    /\ Len(sel.msgs) = 2
    /\ sel.msgs[2].timestamp = now - timedelta(YesterdayStartHours)

-----------------------------------------------------------------------------
(* collect_message and clear_messages called on their own, in any order,   *)
(* on updates of every kind the handler tells apart.  sel keeps the call   *)
(* made last: its update, the store and the subscriptions it found and     *)
(* the count it replied with.                                              *)

NoUpdate == Update("none", 0, EmptyStr, EmptyStr, EmptyStr, EmptyStr, EmptyStr)

\* A text message of a user, a command, an update without message or
\* channel post (an edited message), a sticker of a user without username,
\* a photo whose caption begins with a slash, a channel post, and a
\* command posted in a channel.
DirectUpdates(chat_id) ==
    {Update("message", chat_id, Lit("a"), EmptyStr, SomeUser, EmptyStr,
            EmptyStr),
     Update("message", chat_id, SlashText, EmptyStr, SomeUser, EmptyStr,
            EmptyStr),
     Update("none", chat_id, EmptyStr, EmptyStr, EmptyStr, EmptyStr,
            EmptyStr),
     Update("message", chat_id, EmptyStr, EmptyStr, EmptyStr, Lit("f"),
            EmptyStr),
     Update("message", chat_id, EmptyStr, SlashText, SomeUser, EmptyStr,
            EmptyStr),
     Update("channel_post", chat_id, Lit("a"), EmptyStr, EmptyStr, EmptyStr,
            Lit("t")),
     Update("channel_post", chat_id, SlashText, EmptyStr, EmptyStr, EmptyStr,
            Lit("t"))}

DirectCollect ==
    /\ \E chat_id \in Chats :
           \E u \in DirectUpdates(chat_id) :
               /\ Ignored(u) \/ Stored(channel_messages) < MaxStored
               /\ channel_messages' = Collected(channel_messages, u, now)
               /\ sel' = [kind |-> "collect", chat |-> chat_id, update |-> u,
                          before |-> channel_messages,
                          subs |-> auto_summary_chats, count |-> 0]
    /\ UNCHANGED <<auto_summary_chats, now, gs, req, sched>>

DirectClear ==
    /\ \E chat_id \in Chats :
           LET c == Cleared(channel_messages, chat_id) IN
           /\ channel_messages' = c.store
           /\ sel' = [kind |-> "clear", chat |-> chat_id, update |-> NoUpdate,
                      before |-> channel_messages,
                      subs |-> auto_summary_chats, count |-> c.count]
    /\ UNCHANGED <<auto_summary_chats, now, gs, req, sched>>

InitStore ==
    /\ channel_messages = EmptyStore
    /\ auto_summary_chats \in {{}, Chats}
    /\ now = 0
    /\ gs = GsIdle
    /\ req = ReqIdle
    /\ sched = SchedCreated
    /\ sel = NoSelection

NextStore == DirectCollect \/ DirectClear

SpecStore == InitStore /\ [][NextStore]_vars

-----------------------------------------------------------------------------
(* The interactive handlers called on their own, with every argument       *)
(* drawn, on a store that collect_message has filled from updates dated    *)
(* around the cutoffs of one hour and of 24 hours: texts 0, 60 and 61      *)
(* minutes old, 24 hours old and one minute more, and, all just received,  *)
(* a sticker, a text of spaces, a photo with a caption and a command.      *)
(* sel keeps the updates delivered.                                        *)

TextAges == {0, timedelta(1), timedelta(1) + 1, timedelta(DayWindowHours),
             timedelta(DayWindowHours) + 1}

Dated(u, date) == [update |-> u, date |-> date]

RequestUpdates ==
    {Dated(Update("message", WindowChat, Lit("a"), EmptyStr, SomeUser,
                  EmptyStr, EmptyStr), WindowNow - age) : age \in TextAges}
    \cup
    {Dated(Update("message", WindowChat, text, caption, SomeUser, EmptyStr,
                  EmptyStr), WindowNow) :
        text \in {EmptyStr}, caption \in {EmptyStr, Lit("c")}}
    \cup
    {Dated(Update("message", WindowChat, text, EmptyStr, SomeUser, EmptyStr,
                  EmptyStr), WindowNow) :
        text \in {BlankText, SlashText}}

\* collect_message called for each of the updates in turn
RECURSIVE CollectAll(_, _)
CollectAll(store, ups) ==
    IF ups = <<>> THEN store
    ELSE CollectAll(Collected(store, Head(ups).update, Head(ups).date),
                    Tail(ups))

InitRequest ==
    /\ \E ups \in SeqsUpTo(RequestUpdates, MaxReqBuf) :
           /\ channel_messages = CollectAll(EmptyStore, ups)
           /\ sel = [kind |-> "collected", updates |-> ups]
    /\ auto_summary_chats = {WindowChat}
    /\ now = WindowNow
    /\ gs = GsIdle
    /\ req = ReqIdle
    /\ sched = SchedCreated

ReqStartAny == ReqEnter(ArgTexts)

NextRequest ==
    \/ ReqStartAny
    \/ ReqSelect
    \/ ReqReplySummary
    \/ ReqSummaryRaised
    \/ ReqDone
    \/ GsStage1Ok
    \/ GsStage1Fail
    \/ GsStage2Ok
    \/ GsStage2Fail

SpecRequest == InitRequest /\ [][NextRequest]_vars

-----------------------------------------------------------------------------
(* The scheduler on its own, started at several times of day and followed  *)
(* over several days, each conversation with no message or with one        *)
(* message received at the start.                                          *)

StartInstants ==
    {0, MinutesPerHour \div 2, MinutesPerHour - 1, MinutesPerHour,
     MinutesPerHour + 1, 12 * MinutesPerHour, MinutesPerDay - 1}

InitClock ==
    /\ now \in StartInstants
    /\ \E S \in SUBSET Chats :
           channel_messages =
               [c \in S |-> <<Message(Lit("a"), now, SomeUser)>>]
    /\ auto_summary_chats \in SUBSET Chats
    /\ gs = GsIdle
    /\ req = ReqIdle
    /\ sched = SchedCreated
    /\ sel = NoSelection

ClockAdvanceDays == SleepUntilWake(MaxClockDays * MinutesPerDay)

NextClock ==
    \/ SchedStart
    \/ ClockAdvanceDays
    \/ SchedFire
    \/ SchedSend
    \/ SchedSummaryRaised
    \/ SchedSendOk
    \/ SchedSendFail
    \/ SchedSleepDone
    \/ GsStage1Ok
    \/ GsStage1Fail
    \/ GsStage2Ok
    \/ GsStage2Fail

SpecClock == InitClock /\ [][NextClock]_vars

-----------------------------------------------------------------------------
(* Properties of the running program.                                      *)

\* a completion call of a run started by a handler or by the scheduler is
\* in flight
SummaryInProgress ==
    gs.pc \in {"stage1", "stage2"} /\ gs.caller \in {"req", "sched"}

\* C8: in every state in which a generate_summary run is between its first
\* Stage-1 call and its Stage-2 result, collect_message can run, for every
\* conversation, before the run goes on.
C8_IngestionNotBlocked ==
    SummaryInProgress => \A chat_id \in Chats : ENABLED collect_message(chat_id)

LogChats(log) == [i \in DOMAIN log |-> log[i].chat]

BatchRunning == sched.pc \in {"summarizing", "sending"}

DeliveryFailedAt(i) == sched.log[i].outcome = "send_failed"

\* C9: a send_message that raises never ends the batch or the scheduler
\* task.  While the batch runs, the conversations snapshotted at its start
\* are, in order, those the loop has finished with followed by those still
\* to come, the first of which is being summarized or sent to with its
\* non-empty 24-hour window; every conversation that follows a failed
\* delivery is therefore either finished with or still to come; and a
\* batch that has reached its end has finished with every conversation of
\* the snapshot, each passed over for an empty window or sent to, whether
\* the delivery went through or failed.
C9_DeliveryFailureIsolated ==
    /\ sched.cause # "delivery"
    /\ BatchRunning =>
           /\ LogChats(sched.log) \o sched.todo = sched.snapshot
           /\ sched.todo # <<>>
           /\ sched.msgs # <<>>
    /\ sched.pc = "sleep60" =>
           /\ LogChats(sched.log) = sched.snapshot
           /\ sched.todo = <<>>
    /\ \A i \in DOMAIN sched.log :
           /\ sched.log[i].outcome \in {"empty", "sent", "send_failed"}
           /\ DeliveryFailedAt(i) =>
                  /\ sched.pc \in {"summarizing", "sending", "sleep60"}
                  /\ \A k \in (i + 1)..Len(sched.snapshot) :
                         \/ k <= Len(sched.log)
                                /\ sched.log[k].chat = sched.snapshot[k]
                         \/ k > Len(sched.log)
                                /\ sched.todo[k - Len(sched.log)]
                                       = sched.snapshot[k]

\* A batch over two conversations that has ended: the delivery to the
\* first failed and the digest of the second was delivered.
C9_Witness ==
    /\ sched.pc = "sleep60"
    /\ Len(sched.snapshot) = 2
    /\ Len(sched.log) = 2
    /\ sched.log[1].outcome = "send_failed"
    /\ sched.log[2].outcome = "sent"

\* C10: whatever fails in a scheduled digest, a completion call of
\* generate_summary included, the scheduler task goes on: it is never
\* ended by the failure, so the rest of the cycle and the later cycles
\* still run.
C10_SchedulerSurvives == sched.pc # "dead"

-----------------------------------------------------------------------------
(* Properties of the store operations.                                     *)

BufferIn(store, chat_id) ==
    IF chat_id \in DOMAIN store THEN store[chat_id] ELSE <<>>

\* the update carries a text that begins with a slash
CarriesCommand(u) == u.text # EmptyStr /\ Chars(u.text)[1] = "/"

\* C12: after collect_message has handled a command (a text beginning with
\* "/", in a message or in a channel post) or an update without message,
\* the store is what it was before the call: the same conversations have a
\* list, so none was created, and every list is unchanged.
C12_CommandsIgnored ==
    (sel.kind = "collect"
        /\ (CarriesCommand(sel.update) \/ sel.update.post = "none")) =>
        /\ DOMAIN channel_messages = DOMAIN sel.before
        /\ \A c \in DOMAIN sel.before : channel_messages[c] = sel.before[c]
        /\ auto_summary_chats = sel.subs

\* A command has just been handled for a conversation that has no list,
\* while another conversation has messages.
C12_Witness ==
    /\ sel.kind = "collect"
    /\ CarriesCommand(sel.update)
    /\ sel.chat \notin DOMAIN channel_messages
    /\ \E c \in Chats : BufferIn(channel_messages, c) # <<>>

\* C13: after clear_messages for a conversation, in any order with
\* collect_message, the conversation has an empty list, the count replied
\* is the number of messages its list held before the call (0 when it had
\* no list), every other conversation has the list it had, or none as
\* before, and the subscriptions are unchanged.
C13_ClearCounts ==
    sel.kind = "clear" =>
        /\ sel.chat \in DOMAIN channel_messages
        /\ channel_messages[sel.chat] = <<>>
        /\ sel.count = Len(BufferIn(sel.before, sel.chat))
        /\ \A c \in Chats \ {sel.chat} :
               /\ c \in DOMAIN channel_messages <=> c \in DOMAIN sel.before
               /\ BufferIn(channel_messages, c) = BufferIn(sel.before, c)
        /\ auto_summary_chats = sel.subs

\* A conversation with one message has just been cleared while another
\* conversation keeps its message and the subscriptions are not empty.
C13_Witness ==
    /\ sel.kind = "clear"
    /\ sel.count = 1
    /\ \E c \in Chats \ {sel.chat} : BufferIn(channel_messages, c) # <<>>
    /\ auto_summary_chats # {}

-----------------------------------------------------------------------------
(* Properties of the interactive handlers.                                 *)

Acknowledged(r) == \E i \in DOMAIN r.replies : r.replies[i].kind = "ack"

\* the replies that may follow the acknowledgment: the summary, a notice
\* that there is nothing to summarize, or an explanation of a failure
AnswerKinds ==
    {"summary", "no_messages", "no_messages_in_window", "failure"}

HandlerEnds == req.pc # "idle" /\ req'.pc = "idle"

\* C11: a completion call of an interactive request is issued only after
\* the acknowledgment was sent, and a handler that has acknowledged ends
\* only after exactly one more reply, which is the summary, a notice that
\* there is nothing to summarize or an explanation of the failure: so a
\* completion call that fails, in either stage, is answered too.
C11_AckThenOneAnswer ==
    [][/\ (gs'.caller = "req" /\ gs'.calls # <<>>)
              => (req'.replies # <<>> /\ req'.replies[1].kind = "ack")
       /\ (HandlerEnds /\ Acknowledged(req))
              => /\ Len(req.replies) = 2
                 /\ req.replies[2].kind \in AnswerKinds]_vars

\* what each argument drawn says to a reader: whether it writes a whole
\* number, and which
ArgReading ==
    {[text |-> Word(<<"x">>), number |-> FALSE, n |-> 0],
     [text |-> Word(<<"1", ".", "5">>), number |-> FALSE, n |-> 0],
     [text |-> Word(<<"-", "1">>), number |-> TRUE, n |-> 0 - 1],
     [text |-> Word(<<"0">>), number |-> TRUE, n |-> 0],
     [text |-> Word(<<"1">>), number |-> TRUE, n |-> 1],
     [text |-> Word(<<"2">>), number |-> TRUE, n |-> 2],
     [text |-> Word(<<"3", "0">>), number |-> TRUE, n |-> 30],
     [text |-> Word(<<"3", "1">>), number |-> TRUE, n |-> 31],
     [text |-> Word(<<"1", "6", "8">>), number |-> TRUE, n |-> 168],
     [text |-> Word(<<"1", "6", "9">>), number |-> TRUE, n |-> 169]}

Reading(text) == CHOOSE e \in ArgReading : e.text = text

TakesNumber(r) == r.cmd \in {summary_days, summary_custom}

\* the argument given is not a whole number, or one outside 1..30 for
\* summary_days and 1..168 for summary_custom
Rejected(r) ==
    /\ r.args # <<>>
    /\ LET e == Reading(r.args[1])
       IN  \/ ~e.number
           \/ e.n < 1
           \/ e.n > (IF r.cmd = summary_days THEN 30 ELSE 168)

\* the hours of the window asked for with an argument
HoursAsked(r) ==
    (IF r.cmd = summary_days THEN 24 ELSE 1) * Reading(r.args[1]).n

C14_Handled ==
    (req.pc # "idle" /\ TakesNumber(req)) =>
        IF Rejected(req)
        THEN /\ req.pc = "final"
             /\ Len(req.replies) = 1
             /\ req.replies[1].kind = "usage"
             /\ req.msgs = <<>>
             /\ gs = GsIdle
        ELSE /\ req.replies[1].kind = "ack"
             /\ req.args # <<>> => req.hours = HoursAsked(req)
             /\ req.pc \in {"summarizing", "final"} =>
                    LET buf == BufferOf(req.chat)
                        hours == IF req.args # <<>> THEN HoursAsked(req)
                                 ELSE req.hours
                        S == {i \in DOMAIN buf :
                                 buf[i].timestamp >= now - hours * 60}
                    IN  IF S = {}
                        THEN /\ req.msgs = <<>>
                             /\ req.pc = "final"
                             /\ req.replies[2].kind = "no_messages"
                        ELSE IsSelectionOf(req.msgs, buf, S)

\* the step in which a handler replies with the usage text
UsageStep == req'.replies # <<>> /\ req'.replies[1].kind = "usage"
             /\ req.pc = "idle"

\* C14: summary_custom and summary_days given an argument that is not a
\* whole number, or a number outside 1..168 (1..30 for summary_days),
\* reply with the usage text and nothing else, select no message, call no
\* completion and change nothing of the store, the subscriptions, the
\* clock, the scheduler or a summary run; given a number N of the range,
\* they acknowledge and select exactly the buffered messages of the last N
\* hours (N * 24 hours for summary_days), in buffer order.
C14_WindowValidation ==
    [][/\ C14_Handled'
       /\ UsageStep =>
              UNCHANGED <<channel_messages, auto_summary_chats, now, gs,
                          sched, sel>>]_vars

\* summary_days has been given 31 and has replied with the usage text.
C14_Witness ==
    /\ req.cmd = summary_days
    /\ req.args = <<Word(<<"3", "1">>)>>
    /\ req.pc = "final"
    /\ req.replies[1].kind = "usage"

\* C15: no step of an interactive handler or of a generate_summary run
\* (the window selection, a completion call returning or failing, the
\* reply, the exception leaving the handler) changes the list of any
\* conversation, the set of conversations that have a list, or the
\* subscriptions: in every state of a run, finished, cut short, failed or
\* left waiting for a completion, they are what they were before it.
C15_PipelineReadsOnly ==
    [][(req' # req \/ gs' # gs)
           => UNCHANGED <<channel_messages, auto_summary_chats>>]_vars

\* The Stage-2 call of a run started by summary_yesterday has failed.
C15_Witness ==
    /\ gs.caller = "req"
    /\ gs.pc = "raised"
    /\ gs.error.stage = 2
    /\ req.cmd = summary_yesterday
    /\ req.msgs # <<>>

\* the updates collect_message keeps
Kept(ups) ==
    LET Keep(d) == ~(d.update.post = "none" \/ CarriesCommand(d.update))
    IN  SelectSeq(ups, Keep)

\* the positions of the buffer that fall in the window of a request
WindowOf(r, buf) ==
    IF r.cmd = summary_yesterday
    THEN {i \in DOMAIN buf :
             /\ now - 48 * 60 <= buf[i].timestamp
             /\ buf[i].timestamp < now - 24 * 60}
    ELSE {i \in DOMAIN buf : buf[i].timestamp >= now - r.hours * 60}

\* C17: every update that is not a command is in the buffer in delivery
\* order with its text, or its caption, or the empty text when it has
\* neither; the lines given to the chunker are those of the selected
\* messages whose text holds a character that is not whitespace, in order;
\* and the count written in the reply that carries the summary is the
\* number of buffered messages in the window, the empty ones included.
C17_EmptyTextCounted ==
    LET buf == BufferOf(WindowChat)
        kept == Kept(sel.updates)
    IN  /\ Len(buf) = Len(kept)
        /\ \A i \in DOMAIN buf :
               /\ buf[i].text = IF kept[i].update.text # EmptyStr
                                THEN kept[i].update.text
                                ELSE kept[i].update.caption
               /\ buf[i].timestamp = kept[i].date
        /\ (gs.caller = "req" /\ gs.pc # "idle") =>
               LET T == {i \in DOMAIN req.msgs :
                            ~IsBlankText(req.msgs[i].text)}
               IN  /\ gs.messages = req.msgs
                   /\ Len(gs.lines) = Cardinality(T)
                   /\ \A k \in DOMAIN gs.lines :
                          LET m == req.msgs[KthOf(T, k)]
                          IN  gs.lines[k] = FormatLine(m, strip(m.text))
        /\ \A i \in DOMAIN req.replies :
               req.replies[i].kind = "summary" =>
                   /\ req.replies[i].count
                          = Cardinality(WindowOf(req, BufferOf(req.chat)))
                   /\ IsSelectionOf(req.msgs, BufferOf(req.chat),
                                    WindowOf(req, BufferOf(req.chat)))

\* A summary of two selected messages, the first a sticker without text,
\* has been replied with the count 2.
C17_Witness ==
    /\ req.pc = "final"
    /\ Len(req.replies) = 2
    /\ req.replies[2].kind = "summary"
    /\ req.replies[2].count = 2
    /\ req.msgs[1].text = EmptyStr
    /\ req.msgs[2].text # EmptyStr

-----------------------------------------------------------------------------
(* Properties of the handlers running together.                            *)

DeliveryBegins == sched.pc # "sending" /\ sched'.pc = "sending"

\* C19: every scheduled delivery that begins goes to a conversation that is
\* subscribed at that moment: one whose disable_auto_summary has completed,
\* and for which enable_auto_summary was not called since, gets none, also
\* when it was disabled while the batch was at work on other conversations.
C19_NoDeliveryAfterDisable ==
    [][DeliveryBegins => Head(sched'.todo) \in auto_summary_chats]_vars

DayOf(t) == t \div MinutesPerDay
HourOf(t) == (t % MinutesPerDay) \div MinutesPerHour

\* the step in which schedule_daily_summary computes its next target
TargetComputed == sched.pc # "sleeping" /\ sched'.pc = "sleeping"

\* the step in which send_auto_summary is called
BatchStarts == sched.pc = "sleeping" /\ sched'.pc # "sleeping"

\* the conversations a delivery was attempted to in the batch so far
Attempts(sc) ==
    LET Tried(e) == e.outcome \in {"sent", "send_failed"}
    IN  LogChats(SelectSeq(sc.log, Tried))
        \o (IF sc.pc = "sending" THEN <<Head(sc.todo)>> ELSE <<>>)

NoRepeat(xs) == \A i, j \in DOMAIN xs : i # j => xs[i] # xs[j]

\* C20: every target computed is later than the clock, is at 01:00, and is
\* of the same day when the hour is 0 and of the next day otherwise;
\* send_auto_summary is called on a later day than its previous call; and
\* in a batch no conversation gets a second delivery attempt, each attempt
\* going to a conversation of the snapshot.
C20_OncePerDay ==
    [][/\ TargetComputed =>
              /\ sched'.wake > now
              /\ HourOf(sched'.wake) = 1
              /\ sched'.wake % MinutesPerHour = 0
              /\ DayOf(sched'.wake)
                     = DayOf(now) + (IF HourOf(now) = 0 THEN 0 ELSE 1)
       /\ BatchStarts =>
              /\ sched'.fired = now
              /\ DayOf(now) > DayOf(sched.fired)
       /\ ~BatchStarts => sched'.fired = sched.fired \/ sched'.pc = "dead"
       /\ NoRepeat(Attempts(sched'))
       /\ NoRepeat(sched'.snapshot)
       /\ \A i \in DOMAIN Attempts(sched') :
              InSeq(Attempts(sched')[i], sched'.snapshot)]_vars

\* A batch over two conversations, called at 01:00 of the third day and so
\* not the first of the run, has ended.
C20_Witness ==
    /\ sched.pc = "sleep60"
    /\ DayOf(sched.fired) = 2
    /\ HourOf(sched.fired) = 1
    /\ Len(sched.snapshot) = 2

=============================================================================
